---- MODULE Spec2Model ----
(***************************************************************************)
(* KP chart generator (src/main.py): the sub-lord resolver, the sign and   *)
(* nakshatra classifiers, the house scan, the retrograde test and the      *)
(* chart assembly of compute_kp_json.                                      *)
(*                                                                         *)
(* Numbers.  The sub-lord resolver works on fractions; they are kept as    *)
(* exact reduced rationals [n, d].  Longitudes are kept on a grid of       *)
(* 1/Res degree.  The one place where the rounding of Python's float       *)
(* decides a classification on that grid is nak_size = 360.0 / 27.0,       *)
(* whose rounding direction is computed below (NakSizeExcess).             *)
(***************************************************************************)
EXTENDS Integers, Sequences, FiniteSets

VARIABLES sub, cls, hs, rt, JD, sid_mode, inv

vars == <<sub, cls, hs, rt, JD, sid_mode, inv>>

\* value of a component that the specification at hand does not exercise
Idle == [pc |-> "idle"]

----------------------------------------------------------------------------
(* Arithmetic helpers *)

Abs(x) == IF x < 0 THEN -x ELSE x

RECURSIVE Gcd(_, _)
Gcd(a, b) == IF b = 0 THEN a ELSE Gcd(b, a % b)

\* the rational n/d, d > 0, in lowest terms
Frac(n, d) ==
    LET g == Gcd(Abs(n), d)
    IN  [n |-> n \div g, d |-> d \div g]

----------------------------------------------------------------------------
(* Vimshottari table, src/main.py:112-115 *)

VIM_ORDER == <<"Ketu", "Venus", "Sun", "Moon", "Mars", "Rahu", "Jupiter", "Saturn", "Mercury">>

VIM_YEARS == <<7, 20, 6, 10, 7, 18, 16, 19, 17>>

RECURSIVE SumTo(_, _)
SumTo(s, k) == IF k = 0 THEN 0 ELSE s[k] + SumTo(s, k - 1)

total == SumTo(VIM_YEARS, Len(VIM_YEARS))

Bodies == {VIM_ORDER[i] : i \in 1..Len(VIM_ORDER)}

\* VIM_ORDER.index(lord), 1-based
IndexOf(lord) == CHOOSE i \in 1..Len(VIM_ORDER) : VIM_ORDER[i] = lord

\* position in the table of the j-th entry of the sequence rotated to start at idx
RotIdx(idx, j) == ((idx - 1 + j - 1) % Len(VIM_ORDER)) + 1

\* order = VIM_ORDER[idx:] + VIM_ORDER[:idx]
RotOrder(idx) == [j \in 1..Len(VIM_ORDER) |-> VIM_ORDER[RotIdx(idx, j)]]

\* props = VIM_PROP[idx:] + VIM_PROP[:idx], as weights out of total
RotYears(idx) == [j \in 1..Len(VIM_ORDER) |-> VIM_YEARS[RotIdx(idx, j)]]

\* default of the levels parameter, and the value every caller passes
Levels == 3

\* 1 / 1e-9, the tolerance of the comparison with 1.0
TolInv == 1000000000

\* abs(cur_pos - 1.0) < 1e-9
NearOne(cur) == Abs(cur.n - cur.d) <= (cur.d - 1) \div TolInv

\* cur_pos <= next_cum, next_cum = cumW / total
BelowCumStrict(cur, cumW) == cur.n * total < cumW * cur.d

BelowCum(cur, cumW) == cur.n * total <= cumW * cur.d

\* the test of line 129
Matches(cur, cumW) == BelowCum(cur, cumW) \/ NearOne(cur)

\* the inner for loop, lines 126-137: the first j whose test holds, 0 when
\* the loop ends without a break
RECURSIVE ScanFrom(_, _, _, _)
ScanFrom(cur, years, j, cumulative) ==
    IF j > Len(years) THEN [j |-> 0, cumulative |-> cumulative]
    ELSE LET next_cum == cumulative + years[j]
         IN  IF Matches(cur, next_cum)
             THEN [j |-> j, cumulative |-> cumulative]
             ELSE ScanFrom(cur, years, j + 1, next_cum)

\* cur_pos = (cur_pos - cumulative) / prop
Rescale(cur, cumulative, w) == Frac(total * cur.n - cumulative * cur.d, w * cur.d)

----------------------------------------------------------------------------
(* find_sub_lord_recursive, one action per step of the function *)

\* grid of the offsets: the span is total * Grid units wide
Grid == 1

SpanWidth == total * Grid

SubInit ==
    /\ sub \in [pc : {"call"}, nak_lord : Bodies, pos : 0..SpanWidth, nak_size : {SpanWidth},
                idx : {0}, cur_pos : {Frac(0, 1)}, lords : {<<>>}, level : {0}]
    /\ cls = Idle /\ hs = Idle /\ rt = Idle
    /\ JD = 0 /\ sid_mode = "none" /\ inv = Idle

\* lines 117-123
SubSetup ==
    /\ sub.pc = "call"
    /\ sub' = [sub EXCEPT !.pc = "loop",
                          !.idx = IndexOf(sub.nak_lord),
                          !.cur_pos = Frac(sub.pos, sub.nak_size)]
    /\ UNCHANGED <<cls, hs, rt, JD, sid_mode, inv>>

\* one iteration of `for _ in range(levels)`, lines 125-137
SubLevel ==
    /\ sub.pc = "loop"
    /\ sub.level < Levels
    /\ LET years == RotYears(sub.idx)
           hit == ScanFrom(sub.cur_pos, years, 1, 0)
       IN  IF hit.j = 0
           THEN sub' = [sub EXCEPT !.level = @ + 1]
           ELSE LET lord == RotOrder(sub.idx)[hit.j]
                IN  sub' = [sub EXCEPT !.level = @ + 1,
                                       !.lords = Append(@, lord),
                                       !.cur_pos = Rescale(sub.cur_pos, hit.cumulative, years[hit.j]),
                                       !.idx = IndexOf(lord)]
    /\ UNCHANGED <<cls, hs, rt, JD, sid_mode, inv>>

\* line 139
SubReturn ==
    /\ sub.pc = "loop"
    /\ sub.level = Levels
    /\ sub' = [sub EXCEPT !.pc = "done"]
    /\ UNCHANGED <<cls, hs, rt, JD, sid_mode, inv>>

SubNext == SubSetup \/ SubLevel \/ SubReturn

SpecSub == SubInit /\ [][SubNext]_vars

----------------------------------------------------------------------------
(* Angles.  An angle is an integer number of ticks, T ticks to the degree. *)

FullCircle == 360

SignWidth == 30

NakCount == 27

PadaCount == 4

\* normalize_angle, lines 71-75: Python's % with a positive modulus is never
\* negative, so the `if a < 0` branch adds nothing
normalize_angle(a, T) ==
    LET m == a % (FullCircle * T)
    IN  IF m < 0 THEN m + FullCircle * T ELSE m

\* sign_from_deg, lines 78-82: the sign index
sign_from_deg(deg, T) == (normalize_angle(deg, T) \div (SignWidth * T)) + 1

(* nak_size = 360.0 / 27.0 is a float: the double nearest to 13.333...     *)
(* With 53 significant bits and 2^3 <= 360/27 < 2^4 its last bit is worth  *)
(* 2^-(MantBits - 1 - 3); the quotient scaled by that power of two leaves  *)
(* the remainder NakSizeRem out of 27, which decides the rounding.         *)
MantBits == 53

RECURSIVE Pow2(_)
Pow2(k) == IF k = 0 THEN 1 ELSE 2 * Pow2(k - 1)

RECURSIVE PowMod(_, _, _)
PowMod(b, k, m) == IF k = 0 THEN 1 % m ELSE (b * PowMod(b, k - 1, m)) % m

NakSizeExp == CHOOSE e \in 0..8 : Pow2(e) * NakCount <= FullCircle /\ FullCircle < Pow2(e + 1) * NakCount

NakSizeRem == ((FullCircle % NakCount) * PowMod(2, MantBits - 1 - NakSizeExp, NakCount)) % NakCount

\* how far the float nak_size lies above (positive) or below (negative)
\* 360/27, in 27ths of its last bit
NakSizeExcess == IF 2 * NakSizeRem > NakCount THEN NakCount - NakSizeRem ELSE 0 - NakSizeRem

(* A length around the nakshatra scale is kept as [u, e]: u in units of    *)
(* 1/(3T) degree (so that 360/27 degrees is the integer 40T), plus e times *)
(* a quarter of the excess unit above, which is far below one unit of u.   *)
NakU(T) == ((3 * FullCircle) \div NakCount) * T

nak_size(T) == [u |-> NakU(T), e |-> PadaCount * NakSizeExcess]

pada_size(T) == [u |-> NakU(T) \div PadaCount, e |-> NakSizeExcess]

Less(a, b) == a.u < b.u \/ (a.u = b.u /\ a.e < b.e)

Zero == [u |-> 0, e |-> 0]

\* floor(3 * x / NakU) for a longitude x in ticks, without forming 3 * x
FloorThirds(x, T) == 3 * (x \div NakU(T)) + (3 * (x % NakU(T))) \div NakU(T)

OnNakEdge(x, T) == (3 * (x % NakU(T))) % NakU(T) = 0

\* int(sid_deg // nak_size): the floor of the quotient by the float nak_size;
\* a longitude on an exact multiple of 360/27 lies below that multiple of a
\* nak_size that was rounded up
FloorByNakSize(x, T) ==
    LET q == FloorThirds(x, T)
    IN  IF OnNakEdge(x, T) /\ q > 0 /\ NakSizeExcess > 0 THEN q - 1 ELSE q

\* int(pos_in_nak // pada_size)
FloorByPadaSize(pos, T) ==
    LET ps == pada_size(T)
        c == pos.u \div ps.u
    IN  IF pos.u % ps.u = 0 /\ c > 0 /\ pos.e - c * ps.e < 0 THEN c - 1 ELSE c

\* get_nak_charan_and_pos, lines 84-108
get_nak_charan_and_pos(deg, T) ==
    LET sid_deg == deg % (FullCircle * T)
        raw == FloorByNakSize(sid_deg, T) + 1
        nak_index == IF raw > NakCount THEN NakCount ELSE raw
        diff == [u |-> 3 * (sid_deg % NakU(T)) + NakU(T) * (3 * (sid_deg \div NakU(T)) - (nak_index - 1)),
                 e |-> 0 - (nak_index - 1) * nak_size(T).e]
        pos_in_nak == IF Less(diff, Zero)
                      THEN [u |-> diff.u + nak_size(T).u, e |-> diff.e + nak_size(T).e]
                      ELSE diff
        rawc == FloorByPadaSize(pos_in_nak, T) + 1
        charan == IF rawc > PadaCount THEN PadaCount ELSE rawc
    IN  [nak_index |-> nak_index, charan |-> charan, pos_in_nak |-> pos_in_nak]

----------------------------------------------------------------------------
(* sign_from_deg and get_nak_charan_and_pos applied to one longitude *)

\* ticks per degree of the longitudes given to the classifiers
Res == 1

ClsInit ==
    /\ cls \in [pc : {"call"}, deg : 0..(FullCircle * Res - 1), sign_idx : {0},
                nak_index : {0}, charan : {0}, pos_in_nak : {Zero}]
    /\ sub = Idle /\ hs = Idle /\ rt = Idle
    /\ JD = 0 /\ sid_mode = "none" /\ inv = Idle

ClsSign ==
    /\ cls.pc = "call"
    /\ cls' = [cls EXCEPT !.pc = "sign", !.sign_idx = sign_from_deg(cls.deg, Res)]
    /\ UNCHANGED <<sub, hs, rt, JD, sid_mode, inv>>

ClsNak ==
    /\ cls.pc = "sign"
    /\ LET r == get_nak_charan_and_pos(cls.deg, Res)
       IN  cls' = [cls EXCEPT !.pc = "done", !.nak_index = r.nak_index,
                              !.charan = r.charan, !.pos_in_nak = r.pos_in_nak]
    /\ UNCHANGED <<sub, hs, rt, JD, sid_mode, inv>>

ClsNext == ClsSign \/ ClsNak

SpecCls == ClsInit /\ [][ClsNext]_vars

\* C6: every longitude in [0, 360) gets the sign floor(lon / 30) + 1 in
\* 1..12 and the nakshatra floor(lon / (360/27)) + 1 in 1..27, with the
\* residual offset in [0, 360/27) and the pada in 1..4; a longitude on a
\* multiple of 30 (of 360/27) belongs to the sign (nakshatra) starting there
C6_Classified ==
    cls.pc = "done" =>
        /\ cls.sign_idx = (cls.deg \div (SignWidth * Res)) + 1
        /\ cls.sign_idx \in 1..12
        /\ cls.nak_index = ((NakCount * cls.deg) \div (FullCircle * Res)) + 1
        /\ cls.nak_index \in 1..NakCount
        /\ ~Less(cls.pos_in_nak, Zero)
        /\ Less(cls.pos_in_nak, [u |-> NakU(Res), e |-> 0])
        /\ cls.charan \in 1..PadaCount

----------------------------------------------------------------------------
(* The house scan of compute_kp_json, lines 221-236 (and 273-287 for Ketu) *)

HouseCount == 12

\* the membership test of one interval, lines 226-234
InIntervalOpen(start, end, pdeg) ==
    IF start <= end THEN pdeg > start /\ pdeg < end
    ELSE pdeg > start \/ pdeg < end

InInterval(start, end, pdeg) ==
    IF start <= end THEN pdeg >= start /\ pdeg < end
    ELSE pdeg >= start \/ pdeg < end

\* the for loop with its break, from index i (0-based as in the code);
\* 0 stands for house_no = None
RECURSIVE HouseLoop(_, _, _, _, _)
HouseLoop(cusp_list, ayanamsha, pdeg, T, i) ==
    IF i >= HouseCount THEN 0
    ELSE LET start == normalize_angle(cusp_list[i + 1] - ayanamsha, T)
             end == normalize_angle(cusp_list[((i + 1) % HouseCount) + 1] - ayanamsha, T)
         IN  IF InInterval(start, end, pdeg) THEN i + 1
             ELSE HouseLoop(cusp_list, ayanamsha, pdeg, T, i + 1)

\* lines 235-236
HouseFallbackFirst(house_no) == IF house_no = 0 THEN 1 ELSE house_no

HouseFallback(house_no) == IF house_no = 0 THEN HouseCount ELSE house_no

\* cusp lists given to the scan: cusps that go once around the circle in
\* steps of SignWidth degrees, except that house k is d degrees wider and the
\* next house d degrees narrower (d = SignWidth leaves two cusps equal) ...
Rotating(c0, k, d, T) ==
    [i \in 1..HouseCount |->
        (c0 * T + (i - 1) * SignWidth * T + (IF i = k + 1 THEN d * T ELSE 0)) % (FullCircle * T)]

\* ... and cusps a fixed stride apart: all equal (0), twice around (60),
\* in reverse order (330)
Stride(c0, a, T) == [i \in 1..HouseCount |-> (c0 * T + (i - 1) * a * T) % (FullCircle * T)]

CuspStarts == {0, 10, 355}

CuspLists(T) ==
    {Rotating(c0, k, d, T) : c0 \in CuspStarts, k \in {1, 6, 11}, d \in {-29, 0, 29, 30}}
        \cup {Stride(c0, a, T) : c0 \in CuspStarts, a \in {0, 60, 330}}

AyanSamples(T) == {0, 24 * T}

HsInit ==
    /\ hs \in [pc : {"call"}, cusp_list : CuspLists(Res), ayanamsha : AyanSamples(Res),
               pdeg : 0..(FullCircle * Res - 1), house_no : {0}]
    /\ sub = Idle /\ cls = Idle /\ rt = Idle
    /\ JD = 0 /\ sid_mode = "none" /\ inv = Idle

\* lines 221-234
HsScan ==
    /\ hs.pc = "call"
    /\ hs' = [hs EXCEPT !.pc = "scanned",
                        !.house_no = HouseLoop(hs.cusp_list, hs.ayanamsha, hs.pdeg, Res, 0)]
    /\ UNCHANGED <<sub, cls, rt, JD, sid_mode, inv>>

\* lines 235-236
HsFallback ==
    /\ hs.pc = "scanned"
    /\ hs' = [hs EXCEPT !.pc = "done", !.house_no = HouseFallback(hs.house_no)]
    /\ UNCHANGED <<sub, cls, rt, JD, sid_mode, inv>>

HsNext == HsScan \/ HsFallback

SpecHouse == HsInit /\ [][HsNext]_vars

\* the sidereal cusp of house i and the arc from it to the next cusp
SidCusp(i) == normalize_angle(hs.cusp_list[i] - hs.ayanamsha, Res)

NextCusp(i) == SidCusp((i % HouseCount) + 1)

Arc(i) == (NextCusp(i) - SidCusp(i)) % (FullCircle * Res)

RECURSIVE ArcSum(_)
ArcSum(i) == IF i = 0 THEN 0 ELSE Arc(i) + ArcSum(i - 1)

\* the cusps, visited in order, go once around the circle by positive arcs
WellFormedCusps ==
    /\ \A i \in 1..HouseCount : Arc(i) > 0
    /\ ArcSum(HouseCount) = FullCircle * Res

\* the longitude passes the membership test of interval i
Member(i) ==
    IF SidCusp(i) <= NextCusp(i)
    THEN SidCusp(i) <= hs.pdeg /\ hs.pdeg < NextCusp(i)
    ELSE hs.pdeg >= SidCusp(i) \/ hs.pdeg < NextCusp(i)

Members == {i \in 1..HouseCount : Member(i)}

\* C3: with well-formed cusps every longitude passes the test of exactly one
\* interval, the scan assigns that interval's index, and the scan never ends
\* without a house (the house-12 fallback is not taken)
C3_HouseCoverage ==
    WellFormedCusps =>
        /\ Cardinality(Members) = 1
        /\ (hs.pc \in {"scanned", "done"} => hs.house_no # 0 /\ Members = {hs.house_no})

C3_Witness ==
    /\ hs.pc = "done"
    /\ WellFormedCusps
    /\ SidCusp(HouseCount) > SidCusp(1)
    /\ hs.pdeg < SidCusp(1)
    /\ hs.house_no = HouseCount
    /\ \E i \in 1..HouseCount : Arc(i) # SignWidth * Res

\* C10: for any 12 cusps the scan ends with a house in 1..12: the first
\* interval in cusp order whose test holds, and 12 when none holds
C10_ScanTotal ==
    hs.pc = "done" =>
        /\ hs.house_no \in 1..HouseCount
        /\ (Members # {} => hs.house_no \in Members /\ \A i \in Members : hs.house_no <= i)
        /\ (Members = {} => hs.house_no = HouseCount)

C10_Witness ==
    /\ hs.pc = "done"
    /\ \A i \in 1..HouseCount : hs.cusp_list[i] = hs.cusp_list[1]
    /\ Members = {}
    /\ hs.house_no = HouseCount

----------------------------------------------------------------------------
(* is_retrograde, lines 141-150, on the two longitudes it samples *)

HalfCircle == 180

is_retrograde_closed(lon1, lon2, T) ==
    LET d == normalize_angle(lon2 - lon1, T)
        signed == IF d >= HalfCircle * T THEN d - FullCircle * T ELSE d
    IN  signed < 0

is_retrograde(lon1, lon2, T) ==
    LET d == normalize_angle(lon2 - lon1, T)
        signed == IF d > HalfCircle * T THEN d - FullCircle * T ELSE d
    IN  signed < 0

NowSamples(T) == {0, T, 100 * T, 180 * T, 359 * T}

RtInit ==
    /\ rt \in [pc : {"call"}, lon1 : NowSamples(Res), lon2 : 0..(FullCircle * Res - 1), retro : {FALSE}]
    /\ sub = Idle /\ cls = Idle /\ hs = Idle
    /\ JD = 0 /\ sid_mode = "none" /\ inv = Idle

RtCompute ==
    /\ rt.pc = "call"
    /\ rt' = [rt EXCEPT !.pc = "done", !.retro = is_retrograde(rt.lon1, rt.lon2, Res)]
    /\ UNCHANGED <<sub, cls, hs, JD, sid_mode, inv>>

RtNext == RtCompute

SpecRetro == RtInit /\ [][RtNext]_vars

\* the later longitude lies less than half a circle behind the current one
Behind == \E k \in 1..(HalfCircle * Res - 1) : (rt.lon1 - k) % (FullCircle * Res) = rt.lon2

\* C7: retrograde exactly when the signed change is negative; an unchanged
\* longitude and a change of exactly 180 degrees are not retrograde, and
\* now = 1, later = 359 is retrograde
C7_Retrograde ==
    rt.pc = "done" =>
        /\ rt.retro = Behind
        /\ (rt.lon2 = rt.lon1 => ~rt.retro)
        /\ ((rt.lon2 - rt.lon1) % (FullCircle * Res) = HalfCircle * Res => ~rt.retro)
        /\ (rt.lon1 = Res /\ rt.lon2 = 359 * Res => rt.retro)

C7_Witness ==
    /\ rt.pc = "done"
    /\ rt.lon1 = Res /\ rt.lon2 = 359 * Res
    /\ rt.retro

----------------------------------------------------------------------------
(* compute_kp_json, lines 157-347.  Longitudes are in ticks of 1/ChartT    *)
(* degree: SubRes ticks to the micro-degree, the unit round(x, 6) keeps.   *)
(* JD and the sidereal mode of the ephemeris library are process globals.  *)

PLANETS == <<"Sun", "Moon", "Mercury", "Venus", "Mars", "Jupiter", "Saturn", "Rahu">>

MicroPerDeg == 1000000

\* ticks per micro-degree
SubRes == 2

ChartT == MicroPerDeg * SubRes

\* m micro-degrees in ticks
Micro(m) == m * SubRes

\* round(x, 6): to the nearest micro-degree, an exact tie to the even one
Round6(x) ==
    LET m == x \div SubRes
        r == x % SubRes
        up == 2 * r > SubRes \/ (2 * r = SubRes /\ m % 2 = 1)
    IN  (IF up THEN m + 1 ELSE m) * SubRes

\* to_julian_day(...): the sampled instants are numbered, and the Julian day
\* of instant k is represented by k
to_julian_day(instant) == instant

\* swe.set_sid_mode, lines 174-184
SidModeOf(ayan_mode) == IF ayan_mode = "KP" THEN "KRISHNAMURTI" ELSE "LAHIRI"

(* What the ephemeris library answers at the sampled instants *)

\* swe.get_ayanamsa_ut(jd) under the library's current sidereal mode
Ayanamsa(mode, jd) ==
    IF mode = "KRISHNAMURTI" THEN Micro(23900000 + jd) ELSE Micro(24000000 + jd)

\* Rahu's sidereal longitude (Lahiri) at the sampled instants: next to a
\* rounding step, just below 180 and below 360, on a nakshatra edge, ...
RahuSid ==
    <<Micro(10000000) + (SubRes - 1), Micro(179999999) + (SubRes - 1),
      Micro(359999999) + (SubRes - 1), Micro(40000000), Micro(200250000), 0>>

NumInstants == Len(RahuSid)

PlanetBase == <<15, 123, 40, 300, 77, 251, 330>>

\* swe.calc_ut(jd, pconst)[0][0] for the i-th entry of PLANETS
TropLon(jd, i) ==
    IF PLANETS[i] = "Rahu"
    THEN (RahuSid[jd] + Ayanamsa("LAHIRI", jd)) % (FullCircle * ChartT)
    ELSE Micro((PlanetBase[i] + jd) * MicroPerDeg + 123456 * i)

\* swe.calc_ut(jd + delta_days, pconst)[0][0]
TropLonLater(jd, i) ==
    IF (jd + i) % 3 = 1
    THEN (TropLon(jd, i) - Micro(500000)) % (FullCircle * ChartT)
    ELSE (TropLon(jd, i) + Micro(1000000)) % (FullCircle * ChartT)

\* swe.houses(jd, lat, lon)
HouseCusps(jd) == Rotating(10 + jd, 6, jd, ChartT)

(* The records *)

\* lines 221-236 and 273-287
HouseOf(cusp_list, ayanamsha, pdeg) ==
    HouseFallback(HouseLoop(cusp_list, ayanamsha, pdeg, ChartT, 0))

\* lines 241-259; the sign, lord and chain names depend on these fields only
PlanetRecord(pname, sid_lon, retro, house_no) ==
    LET nak == get_nak_charan_and_pos(sid_lon, ChartT)
    IN  [planet_name |-> pname,
         full_degree |-> Round6(sid_lon),
         is_retro |-> retro,
         sign_id |-> sign_from_deg(sid_lon, ChartT),
         house |-> house_no,
         nakshatra_id |-> nak.nak_index,
         nakshatra_charan |-> nak.charan]

\* line 264
KetuLonQuarter(rahu) == normalize_angle(rahu.full_degree + (HalfCircle \div 2) * ChartT, ChartT)

KetuLon(rahu) == normalize_angle(rahu.full_degree + HalfCircle * ChartT, ChartT)

\* lines 262-307
KetuRecord(rahu, cusp_list, ayanamsha) ==
    LET ketu_sid_lon == KetuLon(rahu)
    IN  PlanetRecord("Ketu", ketu_sid_lon, rahu.is_retro, HouseOf(cusp_list, ayanamsha, ketu_sid_lon))

\* lines 321-345
HouseRecord(cusp_list, ayanamsha, i) ==
    LET cusp_sid == normalize_angle(normalize_angle(cusp_list[i], ChartT) - ayanamsha, ChartT)
        nak == get_nak_charan_and_pos(cusp_sid, ChartT)
    IN  [house_id |-> i,
         full_degree |-> Round6(cusp_sid),
         sign_id |-> sign_from_deg(cusp_sid, ChartT),
         nakshatra_id |-> nak.nak_index,
         nakshatra_charan |-> nak.charan]

AyanModes == {"KP", "Lahiri"}

Fresh(instant, ayan_mode) ==
    [pc |-> "start", instant |-> instant, ayan_mode |-> ayan_mode, ayanamsha |-> 0,
     pi |-> 0, sid_lon |-> 0, retro |-> FALSE, cusp_list |-> <<>>,
     planets |-> <<>>, houses |-> <<>>]

\* lines 163-167
Start(t) ==
    /\ inv[t].pc = "start"
    /\ JD' = to_julian_day(inv[t].instant)
    /\ inv' = [inv EXCEPT ![t].pc = "sid"]
    /\ UNCHANGED <<sub, cls, hs, rt, sid_mode>>

\* lines 174-184
SetSid(t) ==
    /\ inv[t].pc = "sid"
    /\ sid_mode' = SidModeOf(inv[t].ayan_mode)
    /\ inv' = [inv EXCEPT ![t].pc = "ayan"]
    /\ UNCHANGED <<sub, cls, hs, rt, JD>>

\* lines 186-188
GetAyan(t) ==
    /\ inv[t].pc = "ayan"
    /\ inv' = [inv EXCEPT ![t].pc = "calc", ![t].pi = 1,
                          ![t].ayanamsha = Ayanamsa(sid_mode, JD)]
    /\ UNCHANGED <<sub, cls, hs, rt, JD, sid_mode>>

\* lines 192-204, for the planet at index pi
PlanetCalc(t) ==
    /\ inv[t].pc = "calc"
    /\ LET tropical_lon == normalize_angle(TropLon(JD, inv[t].pi), ChartT)
       IN  inv' = [inv EXCEPT ![t].pc = "retro",
                              ![t].sid_lon = normalize_angle(tropical_lon - inv[t].ayanamsha, ChartT)]
    /\ UNCHANGED <<sub, cls, hs, rt, JD, sid_mode>>

\* line 206
PlanetRetro(t) ==
    /\ inv[t].pc = "retro"
    /\ inv' = [inv EXCEPT ![t].pc = "house",
                          ![t].retro = is_retrograde(TropLon(JD, inv[t].pi), TropLonLater(JD, inv[t].pi), ChartT)]
    /\ UNCHANGED <<sub, cls, hs, rt, JD, sid_mode>>

\* lines 213-259
PlanetHouse(t) ==
    /\ inv[t].pc = "house"
    /\ LET cusp_list == HouseCusps(JD)
           house_no == HouseOf(cusp_list, inv[t].ayanamsha, inv[t].sid_lon)
           rec == PlanetRecord(PLANETS[inv[t].pi], inv[t].sid_lon, inv[t].retro, house_no)
       IN  inv' = [inv EXCEPT ![t].pc = IF inv[t].pi < Len(PLANETS) THEN "calc" ELSE "ketu",
                              ![t].pi = IF inv[t].pi < Len(PLANETS) THEN @ + 1 ELSE @,
                              ![t].cusp_list = cusp_list,
                              ![t].planets = Append(@, rec)]
    /\ UNCHANGED <<sub, cls, hs, rt, JD, sid_mode>>

\* lines 262-307
Ketu(t) ==
    /\ inv[t].pc = "ketu"
    /\ LET found == {i \in 1..Len(inv[t].planets) : inv[t].planets[i].planet_name = "Rahu"}
       IN  IF found = {}
           THEN inv' = [inv EXCEPT ![t].pc = "rejd"]
           ELSE LET rahu == inv[t].planets[CHOOSE i \in found : \A j \in found : i <= j]
                IN  inv' = [inv EXCEPT ![t].pc = "rejd",
                                       ![t].planets = Append(@, KetuRecord(rahu, inv[t].cusp_list, inv[t].ayanamsha))]
    /\ UNCHANGED <<sub, cls, hs, rt, JD, sid_mode>>

\* line 311
ReJD(t) ==
    /\ inv[t].pc = "rejd"
    /\ JD' = to_julian_day(inv[t].instant)
    /\ inv' = [inv EXCEPT ![t].pc = "cusps"]
    /\ UNCHANGED <<sub, cls, hs, rt, sid_mode>>

\* lines 313-319
Cusps(t) ==
    /\ inv[t].pc = "cusps"
    /\ inv' = [inv EXCEPT ![t].pc = "houses", ![t].cusp_list = HouseCusps(JD)]
    /\ UNCHANGED <<sub, cls, hs, rt, JD, sid_mode>>

\* lines 321-347
Houses(t) ==
    /\ inv[t].pc = "houses"
    /\ inv' = [inv EXCEPT ![t].pc = "done",
                          ![t].houses = [i \in 1..HouseCount |-> HouseRecord(inv[t].cusp_list, inv[t].ayanamsha, i)]]
    /\ UNCHANGED <<sub, cls, hs, rt, JD, sid_mode>>

ChartNext ==
    \/ \E t \in DOMAIN inv : Start(t)
    \/ \E t \in DOMAIN inv : SetSid(t)
    \/ \E t \in DOMAIN inv : GetAyan(t)
    \/ \E t \in DOMAIN inv : PlanetCalc(t)
    \/ \E t \in DOMAIN inv : PlanetRetro(t)
    \/ \E t \in DOMAIN inv : PlanetHouse(t)
    \/ \E t \in DOMAIN inv : Ketu(t)
    \/ \E t \in DOMAIN inv : ReJD(t)
    \/ \E t \in DOMAIN inv : Cusps(t)
    \/ \E t \in DOMAIN inv : Houses(t)

\* one request at a time
ChartInit ==
    /\ inv \in [{1} -> {Fresh(k, m) : k \in 1..NumInstants, m \in AyanModes}]
    /\ JD = 0 /\ sid_mode = "none"
    /\ sub = Idle /\ cls = Idle /\ hs = Idle /\ rt = Idle

SpecChart == ChartInit /\ [][ChartNext]_vars

\* two requests with different inputs served by two threads; the first one
\* asks for instant 1 in Lahiri mode
ConcInstants == 2

ConcInit ==
    /\ inv \in [{1, 2} -> {Fresh(k, m) : k \in 1..ConcInstants, m \in AyanModes}]
    /\ inv[1] = Fresh(1, "Lahiri")
    /\ inv[2] # inv[1]
    /\ JD = 0 /\ sid_mode = "none"
    /\ sub = Idle /\ cls = Idle /\ hs = Idle /\ rt = Idle

SpecConc == ConcInit /\ [][ChartNext]_vars

----------------------------------------------------------------------------
(* Properties of compute_kp_json *)

KetuOf(t) == inv[t].planets[Len(PLANETS) + 1]

RahuOf(t) == inv[t].planets[Len(PLANETS)]

HasKetu(t) == Len(inv[t].planets) = Len(PLANETS) + 1

\* C5: the Ketu record's longitude is normalize(rahu longitude + 180) for
\* the longitude of the chart's Rahu record, and its retrograde flag is
\* Rahu's
C5_KetuDerived ==
    \A t \in DOMAIN inv :
        HasKetu(t) =>
            /\ RahuOf(t).planet_name = "Rahu" /\ KetuOf(t).planet_name = "Ketu"
            /\ KetuOf(t).full_degree = (RahuOf(t).full_degree + HalfCircle * ChartT) % (FullCircle * ChartT)
            /\ KetuOf(t).is_retro = RahuOf(t).is_retro

\* Rahu's longitude rounds up to 180.000000 and Ketu lands on 0
C5_Witness ==
    \E t \in DOMAIN inv :
        /\ HasKetu(t)
        /\ inv[t].pc = "done"
        /\ RahuOf(t).full_degree = HalfCircle * ChartT
        /\ KetuOf(t).full_degree = 0
        /\ RahuOf(t).is_retro /\ KetuOf(t).is_retro

\* the chart of a request that is served alone
RECURSIVE SoloPlanets(_, _, _)
SoloPlanets(jd, ayanamsha, n) ==
    IF n = 0 THEN <<>>
    ELSE LET sid_lon == normalize_angle(normalize_angle(TropLon(jd, n), ChartT) - ayanamsha, ChartT)
             retro == is_retrograde(TropLon(jd, n), TropLonLater(jd, n), ChartT)
         IN  Append(SoloPlanets(jd, ayanamsha, n - 1),
                    PlanetRecord(PLANETS[n], sid_lon, retro, HouseOf(HouseCusps(jd), ayanamsha, sid_lon)))

Solo(instant, ayan_mode) ==
    LET jd == to_julian_day(instant)
        ayanamsha == Ayanamsa(SidModeOf(ayan_mode), jd)
        ps == SoloPlanets(jd, ayanamsha, Len(PLANETS))
    IN  [ayanamsha |-> ayanamsha,
         planets |-> Append(ps, KetuRecord(ps[Len(PLANETS)], HouseCusps(jd), ayanamsha)),
         houses |-> [i \in 1..HouseCount |-> HouseRecord(HouseCusps(jd), ayanamsha, i)]]

OutOf(t) == [ayanamsha |-> inv[t].ayanamsha, planets |-> inv[t].planets, houses |-> inv[t].houses]

\* C4: whatever the interleaving of two requests, the chart each returns is
\* the chart it returns when served alone
C4_Isolated ==
    \A t \in DOMAIN inv :
        inv[t].pc = "done" => OutOf(t) = Solo(inv[t].instant, inv[t].ayan_mode)

----------------------------------------------------------------------------
(* Properties of find_sub_lord_recursive *)

\* the fraction p = offset_in_span / span_width of the call
CallPos == Frac(sub.pos, sub.nak_size)

\* cumulative weight of the first j entries of the sequence rotated to start at idx
CumWeight(idx, j) == SumTo(RotYears(idx), j)

\* the first entry of the sequence rotated to idx whose cumulative fraction is >= p
FirstAtLeast(idx, p) ==
    CHOOSE j \in 1..Len(VIM_ORDER) :
        /\ p.n * total <= CumWeight(idx, j) * p.d
        /\ \A i \in 1..(j - 1) : p.n * total > CumWeight(idx, i) * p.d

\* the sequence the k-th level scans starts at the nakshatra lord (k = 1) or
\* at the lord emitted at level k - 1
StartOfLevel(k) == IF k = 1 THEN IndexOf(sub.nak_lord) ELSE IndexOf(sub.lords[k - 1])

\* place of the lord emitted at level k in the sequence that level scans
PlaceOfLord(k) ==
    CHOOSE j \in 1..Len(VIM_ORDER) : RotOrder(StartOfLevel(k))[j] = sub.lords[k]

\* the position of level k: p at level 1, and above it the position of the
\* level below rescaled into the sub-interval of the lord emitted there
RECURSIVE PosOfLevel(_)
PosOfLevel(k) ==
    IF k = 1 THEN CallPos
    ELSE LET q == PosOfLevel(k - 1)
             j == PlaceOfLord(k - 1)
             before == CumWeight(StartOfLevel(k - 1), j - 1)
             w == RotYears(StartOfLevel(k - 1))[j]
         IN  Frac(total * q.n - before * q.d, w * q.d)

InUnit(p) == p.n >= 0 /\ p.n <= p.d

\* C1: the call returns exactly `levels` entries, each one of the 9 bodies,
\* for every starting lord and every offset in 0..span_width
C1_ChainLength ==
    sub.pc = "done" =>
        /\ Len(sub.lords) = Levels
        /\ \A i \in 1..Len(sub.lords) : sub.lords[i] \in Bodies

\* C2: a position in the last weighted sub-interval, p = 1 included, gets the
\* last entry of the rotated sequence as its level-1 sub-lord
InLastInterval ==
    /\ sub.pos * total > CumWeight(IndexOf(sub.nak_lord), Len(VIM_ORDER) - 1) * sub.nak_size
    /\ sub.pos <= sub.nak_size

C2_TopOfSpan ==
    (sub.pc = "done" /\ InLastInterval) =>
        /\ Len(sub.lords) >= 1
        /\ sub.lords[1] = RotOrder(IndexOf(sub.nak_lord))[Len(VIM_ORDER)]

\* C8: for offsets below the span width, the lord of level k+1 (k = 1, 2) is
\* the first entry, in the sequence rotated to the level-k lord, whose
\* cumulative fraction is >= the rescaled position, which lies in [0, 1]
C8_Rescaled ==
    (sub.pc = "done" /\ sub.pos < sub.nak_size) =>
        /\ Len(sub.lords) = Levels
        /\ \A k \in 1..(Levels - 1) :
              /\ InUnit(PosOfLevel(k + 1))
              /\ sub.lords[k + 1] =
                    RotOrder(IndexOf(sub.lords[k]))[FirstAtLeast(IndexOf(sub.lords[k]), PosOfLevel(k + 1))]

\* the call's position is the cumulative boundary after the j-th sub-interval
OnBoundary(j) ==
    /\ 0 < sub.pos /\ sub.pos < sub.nak_size
    /\ sub.pos * total = CumWeight(IndexOf(sub.nak_lord), j) * sub.nak_size

====
